---------------------------- MODULE Spec2Model ----------------------------
(***************************************************************************)
(* instruction-hub: a CLI that copies Markdown instruction files from      *)
(* GitHub repositories into .github/instructions, tracks them in a         *)
(* manifest and updates or removes them later.                             *)
(*                                                                         *)
(* Strings.  A string is modelled by its structure under the two           *)
(* separators the code splits on: a string is the sequence of its          *)
(* '/'-separated segments, and a segment is the sequence of its            *)
(* '.'-separated atoms.  "docs/guide.md" is << <<"docs">>, <<"guide",      *)
(* "md">> >>, the empty string is << <<"">> >> (as "".split('/') is        *)
(* [""]).  File names (no '/') are single segments.                        *)
(***************************************************************************)
EXTENDS Integers, Sequences, FiniteSets, TLC

VARIABLES
    config,     \* ~/.instruction-hub/config.json: the repos list
    manifest,   \* .github/instructions/.instruction-hub.json: the instructions list
    files,      \* .github/instructions: file name -> content
    upstream,   \* the hosted repositories: file -> what is served for it
    clock,      \* new Date()
    flow,       \* the running command and the position of its loop
    last,       \* history: the branch the last install, update or uninstall took
    arg,        \* input of the pure-function specifications
    res,        \* their result ("none" until the function was applied)
    fstack      \* fetchMarkdownFiles: the stack of calls that await a response

cliVars == <<config, manifest, files, upstream, clock, flow, last>>
pureVars == <<arg, res, fstack>>
vars == <<config, manifest, files, upstream, clock, flow, last, arg, res, fstack>>

\* ------------------------------------------------------------------ strings
S(a) == <<a>>
\* F applied to the value of e (e is evaluated once)
With(e, F(_)) == CHOOSE y \in {F(x) : x \in {e}} : TRUE
Empty == <<"">>
Undefined == <<"undefined">>      \* what `${undefined}` prints
GitHubHost == <<"github", "com">>
PublicApi == <<S("https:"), Empty, <<"api", "github", "com">>>>
SchemeAtoms == {"https:", "http:"}
NoResult == [kind |-> "none"]

\* s.includes('://'): a segment ending in ':' followed by an empty segment
IncludesScheme(s) ==
    \E i \in 1..(Len(s) - 2) :
        /\ s[i][Len(s[i])] \in SchemeAtoms
        /\ s[i + 1] = Empty

\* the indices at which the separator '/tree/' matches in s, in order,
\* without overlap (as String.prototype.split consumes each match)
RECURSIVE TreeSeps(_, _)
TreeSeps(s, from) ==
    LET cand == {i \in from..(Len(s) - 1) : i >= 2 /\ s[i] = S("tree")}
    IN IF cand = {} THEN <<>>
       ELSE LET i == CHOOSE j \in cand : \A k \in cand : j <= k
            IN <<i>> \o TreeSeps(s, i + 2)

\* s.split('/tree/'), as a sequence of strings
SplitTree(s) ==
    LET seps == TreeSeps(s, 1)
        n == Len(seps)
        lo(k) == IF k = 1 THEN 1 ELSE seps[k - 1] + 1
        hi(k) == IF k = n + 1 THEN Len(s) ELSE seps[k] - 1
    IN [k \in 1..(n + 1) |-> SubSeq(s, lo(k), hi(k))]

\* the API base parseGitHubRepo derives from the reference
RefBaseUrl(repo) ==
    IF IncludesScheme(repo) /\ repo[3] # GitHubHost
    THEN <<repo[1], Empty, repo[3], S("api"), S("v3")>>
    ELSE PublicApi

\* url.pathname.substring(1) of a URL, the reference itself otherwise
RefPath(repo) ==
    IF IncludesScheme(repo)
    THEN (IF Len(repo) > 3 THEN SubSeq(repo, 4, Len(repo)) ELSE <<Empty>>)
    ELSE repo

\* "Remove tree/branch part": parts = cleaned.split('/tree/'),
\* afterBranch = parts[1].split('/').slice(1).join('/')
StripTree(cleaned) ==
    IF TreeSeps(cleaned, 1) = <<>> THEN cleaned
    ELSE With(SplitTree(cleaned), LAMBDA parts :
            IF Tail(parts[2]) # <<>> /\ Tail(parts[2]) # <<Empty>>
            THEN parts[1] \o Tail(parts[2])
            ELSE parts[1])

\* parseGitHubRepo(repo): {owner, repo, path?, baseUrl}; path <<>> is undefined
parseGitHubRepo(repo) ==
    With(StripTree(RefPath(repo)), LAMBDA cleaned :
        [owner |-> cleaned[1],
         repo |-> IF Len(cleaned) >= 2 THEN cleaned[2] ELSE Undefined,
         path |-> SubSeq(cleaned, 3, Len(cleaned)),
         baseUrl |-> RefBaseUrl(repo)])

\* parseGitHubFileUrl(url): null unless .../owner/repo/blob/<branch>/<path>
parseGitHubFileUrl(url) ==
    LET isUrl == Len(url) >= 3 /\ url[1][Len(url[1])] \in SchemeAtoms /\ url[2] = Empty
        hostname == url[3]
        pathParts == IF Len(url) > 3 THEN SubSeq(url, 4, Len(url)) ELSE <<Empty>>
    IN IF ~isUrl \/ Len(pathParts) < 5 \/ pathParts[3] # S("blob")
       THEN [ok |-> FALSE]
       ELSE [ok |-> TRUE,
             repo |-> <<pathParts[1], pathParts[2]>>,
             filePath |-> SubSeq(pathParts, 5, Len(pathParts)),
             owner |-> pathParts[1],
             repoName |-> pathParts[2],
             branch |-> pathParts[4],
             baseUrl |-> IF hostname # GitHubHost
                         THEN <<url[1], Empty, hostname, S("api"), S("v3")>>
                         ELSE PublicApi]

\* ------------------------------------------------- the contents API
GheHost == <<"ghe", "co">>
GuideMd == <<"guide", "md">>
RulesMd == <<"rules", "instructions", "md">>
License == S("LICENSE")
\* the order the API lists the entries of a directory in
NameOrder == <<License, S("docs"), GuideMd, RulesMd, S("tree")>>

RECURSIVE SeqsUpTo(_, _)
SeqsUpTo(set, n) ==
    IF n = 0 THEN {<<>>}
    ELSE LET shorter == SeqsUpTo(set, n - 1)
         IN shorter \cup {Append(q, e) : q \in shorter, e \in set}

\* the API base a host serves the contents API under
ApiBaseOf(host) ==
    IF host = GitHubHost THEN PublicApi
    ELSE <<S("https:"), Empty, host, S("api"), S("v3")>>

\* download_url of a file of a hosted repository
UpFile(r, path) == [host |-> r.host, owner |-> r.owner, repo |-> r.repo, path |-> path]

\* the entry the API returns for the path q of the hosted repository r
ApiEntry(r, q) ==
    [type |-> IF q \in r.dirs THEN "dir" ELSE "file",
     name |-> q[Len(q)],
     path |-> q,
     download_url |-> UpFile(r, q)]

\* the answer of the hosted repository r for the path p
ApiAnswer(r, p, gone) ==
    With(r.dirs \cup {f \in r.files : UpFile(r, f) \notin gone}, LAMBDA live :
        IF p = <<>> \/ p \in r.dirs
        THEN With(SelectSeq(NameOrder, LAMBDA n : Append(p, n) \in live), LAMBDA names :
                [status |-> 200, isDir |-> TRUE,
                 data |-> [i \in 1..Len(names) |-> ApiEntry(r, Append(p, names[i]))]])
        ELSE IF p \in live
        THEN [status |-> 200, isDir |-> FALSE, data |-> ApiEntry(r, p)]
        ELSE [status |-> 404])

\* the contents URLs of the hosted repository r start with this
ApiPrefix(r) == ApiBaseOf(r.host) \o <<S("repos"), r.owner, r.repo, S("contents")>>

\* GET url on the contents API.  world is the set of hosted repositories
\* [host, owner, repo, dirs, files]; gone the set of files deleted upstream.
\* A directory answers with its entries, a file with its own entry, anything
\* else with 404.
ApiContents(url, world, gone) ==
    With({r \in world : /\ Len(url) > Len(ApiPrefix(r))
                         /\ SubSeq(url, 1, Len(ApiPrefix(r))) = ApiPrefix(r)},
         LAMBDA hit :
            IF hit = {} THEN [status |-> 404]
            ELSE With(CHOOSE r \in hit : TRUE, LAMBDA r :
                    With(SubSeq(url, Len(ApiPrefix(r)) + 1, Len(url)), LAMBDA rest :
                        ApiAnswer(r, IF rest = <<Empty>> THEN <<>> ELSE rest, gone))))

\* name.endsWith('.md')
EndsWithMd(name) == Len(name) >= 2 /\ name[Len(name)] = "md"

\* baseUrl.replace('/api/v3', ''): the first /api/v3 is removed
ReplaceApiV3(b) ==
    LET hits == {i \in 2..(Len(b) - 1) : b[i] = S("api") /\ b[i + 1] = S("v3")}
    IN IF hits = {} THEN b
       ELSE LET i == CHOOSE j \in hits : \A k \in hits : j <= k
            IN SubSeq(b, 1, i - 1) \o SubSeq(b, i + 2, Len(b))

\* `${baseUrl}/repos/${owner}/${repoName}/contents/${repoPath || ''}`
ContentsUrl(baseUrl, owner, repoName, repoPath) ==
    baseUrl \o <<S("repos"), owner, repoName, S("contents")>>
            \o (IF repoPath = <<>> THEN <<Empty>> ELSE repoPath)

\* the reference the recursion passes on for a directory entry
SubDirRef(loc, item) ==
    ReplaceApiV3(loc.baseUrl) \o <<loc.owner, loc.repo>> \o item.path

\* fetchMarkdownFiles(repo), call by call.  The state of a listing is
\* [stack, res]: the calls that await their entries, innermost first, and
\* the outcome.  A call is [loc, url, want, items, files]; want is the URL
\* that the caller's locator and the entry's path name (<<>> for the
\* outermost call).
MaxStack == 4

\* a call after its response resp to the request of url
FetchAnswer(loc, url, resp, want, callers) ==
    IF resp.status = 200 /\ resp.isDir
    THEN [stack |-> <<[loc |-> loc, url |-> url, want |-> want,
                       items |-> resp.data, files |-> <<>>]>> \o callers,
          res |-> NoResult]
    ELSE \* the error reaches the outermost caller
         [stack |-> <<>>, res |-> [kind |-> "error", url |-> url, want |-> want]]

\* a call up to its response: the request is made, the entries are awaited
FetchCall(ref, want, callers, world, gone) ==
    With(parseGitHubRepo(ref), LAMBDA loc :
        With(ContentsUrl(loc.baseUrl, loc.owner, loc.repo, loc.path), LAMBDA url :
            With(ApiContents(url, world, gone), LAMBDA resp :
                FetchAnswer(loc, url, resp, want, callers))))

\* one iteration of `for (const item of response.data)`
FetchItemStep(stack, world, gone) ==
    LET top == Head(stack)
        item == Head(Head(stack).items)
        rest == [Head(stack) EXCEPT !.items = Tail(@)]
    IN IF item.type = "file" /\ EndsWithMd(item.name)
       THEN [stack |-> <<[rest EXCEPT !.files =
                            Append(top.files, [name |-> item.name, path |-> item.path,
                                               download_url |-> item.download_url])]>>
                       \o Tail(stack),
             res |-> NoResult]
       ELSE IF item.type = "dir"
       THEN FetchCall(SubDirRef(top.loc, item),
                      ContentsUrl(top.loc.baseUrl, top.loc.owner, top.loc.repo, item.path),
                      <<rest>> \o Tail(stack), world, gone)
       ELSE [stack |-> <<rest>> \o Tail(stack), res |-> NoResult]

\* `return files`: the caller appends them (files.push(...subFiles))
FetchReturnStep(stack) ==
    IF Len(stack) = 1
    THEN [stack |-> <<>>, res |-> [kind |-> "files", files |-> Head(stack).files]]
    ELSE [stack |-> <<[stack[2] EXCEPT !.files = @ \o Head(stack).files]>>
                    \o SubSeq(stack, 3, Len(stack)),
          res |-> NoResult]

\* the next call would nest deeper than the model follows
TooDeep(stack) ==
    /\ Head(stack).items # <<>>
    /\ Head(Head(stack).items).type = "dir"
    /\ Len(stack) >= MaxStack

\* the listing run to its end
RECURSIVE RunFetch(_, _, _)
RunFetch(state, world, gone) ==
    With(state, LAMBDA st :
        IF st.res.kind # "none" THEN st.res
        ELSE IF TooDeep(st.stack) THEN [kind |-> "deep"]
        ELSE RunFetch(IF Head(st.stack).items # <<>>
                      THEN FetchItemStep(st.stack, world, gone)
                      ELSE FetchReturnStep(st.stack),
                      world, gone))

\* fetchMarkdownFiles(repo) as a function: [ok, files]
fetchMarkdownFiles(repo, world, gone) ==
    With(RunFetch(FetchCall(repo, <<>>, <<>>, world, gone), world, gone), LAMBDA r :
        IF r.kind = "files" THEN [ok |-> TRUE, files |-> r.files]
        ELSE [ok |-> FALSE, files |-> <<>>])

\* ------------------------------------------------- config.ts, tracker
\* variant: addRepo without the includes test
addRepo_Append(repos, repo) == Append(repos, repo)

\* addRepo(repo) on the repos list
addRepo(repos, repo) ==
    IF \E i \in 1..Len(repos) : repos[i] = repo THEN repos ELSE Append(repos, repo)

\* removeRepo(repo) on the repos list
removeRepo(repos, repo) == SelectSeq(repos, LAMBDA r : r # repo)

\* keeps every entry of the list but those named filename
FilterOut(list, filename) == SelectSeq(list, LAMBDA i : i.filename # filename)

\* variant: addManagedInstruction without the filter
addManagedInstruction_Append(list, instruction) == Append(list, instruction)

\* addManagedInstruction(instruction) on the instructions list
addManagedInstruction(list, instruction) ==
    Append(FilterOut(list, instruction.filename), instruction)

\* removeManagedInstruction(filename) on the instructions list
removeManagedInstruction(list, filename) == FilterOut(list, filename)

\* managed.find(inst => inst.filename === filename): <<>> or <<the entry>>
FindManaged(list, filename) ==
    LET hits == SelectSeq(list, LAMBDA i : i.filename = filename)
    IN IF hits = <<>> THEN <<>> ELSE <<hits[1]>>

\* ------------------------------------------------- interactive.ts helpers
\* A content is the sequence of its lines (text.split('\n')): "# a\n" is
\* <<"# a", "">>.
DashLines == {"---", "--- "}
DefaultFrontMatter == <<"---", "applyTo: \"**\"", "---", "", "">>

\* /^---\s*\n[\s\S]*?\n---\s*\n/.test(content)
HasFrontMatter(content) ==
    /\ Len(content) >= 4
    /\ content[1] \in DashLines
    /\ \E j \in 3..(Len(content) - 1) : content[j] \in DashLines

ensureFrontMatter(content) ==
    IF HasFrontMatter(content) THEN content
    ELSE SubSeq(DefaultFrontMatter, 1, 4) \o content

\* filename.endsWith('.instructions.md')
EndsWithInstructionsMd(name) ==
    /\ Len(name) >= 3
    /\ name[Len(name) - 1] = "instructions"
    /\ name[Len(name)] = "md"

\* name.replace(/\.<a>\.<b>$/, '') and name.replace(/\.<b>$/, '')
StripSuffix(name, suffix) ==
    LET n == Len(name)
        k == Len(suffix)
    IN IF n > k /\ SubSeq(name, n - k + 1, n) = suffix
       THEN SubSeq(name, 1, n - k)
       ELSE name

\* variant: the suffix is exchanged without the endsWith test
InstallName_Always(name) == StripSuffix(name, <<"md">>) \o <<"instructions", "md">>

\* the target name of a source file, before any collision handling
InstallName(name) ==
    IF EndsWithInstructionsMd(name) THEN name
    ELSE StripSuffix(name, <<"md">>) \o <<"instructions", "md">>

\* interactiveInstall: the name used when the target is tracked under
\* another source
DifferentiatedInteractive(filename, selectedRepo) ==
    StripSuffix(filename, <<"instruction", "md">>)
        \o parseGitHubRepo(selectedRepo).repo \o <<"instruction", "md">>

\* installFromUrl: the name used when the target is tracked under another
\* source
DifferentiatedUrl(filename, repo) ==
    StripSuffix(filename, <<"instructions", "md">>)
        \o parseGitHubRepo(repo).repo \o <<"instructions", "md">>

\* fs.existsSync / fs.writeFileSync / fs.unlinkSync on .github/instructions
Exists(dir, filename) == filename \in DOMAIN dir
WriteFile(dir, filename, content) ==
    [f \in DOMAIN dir \cup {filename} |-> IF f = filename THEN content ELSE dir[f]]
Unlink(dir, filename) == [f \in DOMAIN dir \ {filename} |-> dir[f]]

\* which branch of the collision policy a write to filename from source takes
CollisionCase(dir, list, filename, source) ==
    LET found == FindManaged(list, filename)
    IN IF ~Exists(dir, filename) THEN "fresh"
       ELSE IF found # <<>> /\ found[1].sourceRepo # source THEN "diff"
       ELSE IF found # <<>> THEN "same"
       ELSE "untracked"

\* variant: interactiveInstall without the collision handling
TargetInteractive_InPlace(dir, list, name, selectedRepo) == InstallName(name)

\* variant: interactiveInstall renaming whenever the target exists
TargetInteractive_Rename(dir, list, name, selectedRepo) ==
    IF Exists(dir, InstallName(name))
    THEN DifferentiatedInteractive(InstallName(name), selectedRepo)
    ELSE InstallName(name)

\* the name interactiveInstall writes a source file of selectedRepo under
TargetInteractive(dir, list, name, selectedRepo) ==
    LET filename == InstallName(name)
    IN IF CollisionCase(dir, list, filename, selectedRepo) = "diff"
       THEN DifferentiatedInteractive(filename, selectedRepo)
       ELSE filename

\* the name installFromUrl writes a source file of repo under
TargetUrl(dir, list, name, repo) ==
    LET filename == InstallName(name)
    IN IF CollisionCase(dir, list, filename, repo) = "diff"
       THEN DifferentiatedUrl(filename, repo)
       ELSE filename

\* path.basename(p)
Basename(p) == p[Len(p)]

\* ------------------------------------------------- the CLI
MaxClock == 2

RepoA == [host |-> GitHubHost, owner |-> S("oa"), repo |-> S("repoA"),
          dirs |-> {}, files |-> {<<GuideMd>>}]
RepoB == [host |-> GitHubHost, owner |-> S("ob"), repo |-> S("repoB"),
          dirs |-> {}, files |-> {<<GuideMd>>, <<RulesMd>>}]
\* oa/repoA as an Enterprise host has it, with a text of its own
RepoE == [host |-> GheHost, owner |-> S("oa"), repo |-> S("repoA"),
          dirs |-> {}, files |-> {<<GuideMd>>}]
\* another owner's repository that is called repoB as well
RepoC == [host |-> GitHubHost, owner |-> S("oc"), repo |-> S("repoB"),
          dirs |-> {}, files |-> {<<GuideMd>>}]
World == {RepoA, RepoB, RepoE, RepoC}
UpFiles == UNION {{UpFile(r, f) : f \in r.files} : r \in World}

\* what `config add` is given, and what `install <url>` is given
RefA == <<S("oa"), S("repoA")>>
RefB == <<S("ob"), S("repoB")>>
ConfigRefs == {RefA, RefB}
\* and with the other repoB
RefC == <<S("oc"), S("repoB")>>
SourceRefs == ConfigRefs \cup {RefC}
UrlOf(host, ref, path) == <<S("https:"), Empty, host>> \o ref \o <<S("blob"), S("main")>> \o path
FileUrls == {UrlOf(GitHubHost, RefA, <<GuideMd>>),
             UrlOf(GitHubHost, RefB, <<GuideMd>>),
             <<S("https:"), Empty, GitHubHost>> \o RefB}
\* and the file URLs on any host
HostUrls == FileUrls \cup {UrlOf(GheHost, RefA, <<GuideMd>>)}
\* and those of the repositories that share a name
SourceUrls == {UrlOf(GitHubHost, ref, <<GuideMd>>) : ref \in SourceRefs}

\* upstream[f]: the text served for f ("a", "b"), or that its download
\* fails ("broken"), or that it was deleted ("gone")
TextOf(v) ==
    IF v = "a" THEN <<"# a", "">>
    ELSE <<"---", "applyTo: src", "---", "# b", "">>
UpValues(f) ==
    IF f.host = GheHost \/ f.owner = S("oc") THEN {"b"}
    ELSE IF f.path = <<RulesMd>> THEN {"a"}
    ELSE IF f.repo = S("repoA") THEN {"a", "b"}
    ELSE {"a", "broken", "gone"}
\* what is served for f to begin with
Served(f) == IF UpValues(f) = {"b"} THEN "b" ELSE "a"
Gone == {f \in UpFiles : upstream[f] = "gone"}

\* downloadFile(url)
downloadFile(url) ==
    IF url \in UpFiles /\ upstream[url] \in {"a", "b"}
    THEN [ok |-> TRUE, content |-> TextOf(upstream[url])]
    ELSE [ok |-> FALSE]

\* fetchSingleFile(fileUrl) up to the download: the file is looked up
FileLookup(fileUrl, world, gone) ==
    With(parseGitHubFileUrl(fileUrl), LAMBDA parsed :
        IF ~parsed.ok THEN [ok |-> FALSE]
        ELSE With(ApiContents(ContentsUrl(parsed.baseUrl, parsed.owner, parsed.repoName,
                                          parsed.filePath), world, gone),
                  LAMBDA resp :
                    IF resp.status # 200 \/ resp.isDir THEN [ok |-> FALSE]
                    ELSE [ok |-> TRUE, download_url |-> resp.data.download_url,
                          filename |-> resp.data.name, path |-> parsed.filePath]))

\* what the hosts answer, for every argument of the commands and every set
\* of deleted files
Listings ==
    [repo \in SourceRefs |->
        [gone \in SUBSET UpFiles |-> fetchMarkdownFiles(repo, World, gone)]]
Lookups ==
    [fileUrl \in HostUrls \cup SourceUrls |->
        [gone \in SUBSET UpFiles |-> FileLookup(fileUrl, World, gone)]]
ParsedUrls == [fileUrl \in HostUrls \cup SourceUrls |-> parseGitHubFileUrl(fileUrl)]

\* fetchMarkdownFiles(repo) as the hosts are now
Listing(repo) == Listings[repo][Gone]

\* fetchSingleFile(fileUrl) as the hosts are now
fetchSingleFile(fileUrl) ==
    With(Lookups[fileUrl][Gone], LAMBDA found :
        IF ~found.ok THEN [ok |-> FALSE]
        ELSE With(downloadFile(found.download_url), LAMBDA dl :
                IF dl.ok
                THEN [ok |-> TRUE, content |-> dl.content,
                      filename |-> found.filename, path |-> found.path]
                ELSE [ok |-> FALSE]))

Idle == [kind |-> "idle"]
Includes(list, x) == \E i \in 1..Len(list) : list[i] = x

\* what a checkbox prompt over s can return: the sublists of s
RECURSIVE Selections(_)
Selections(s) ==
    IF s = <<>> THEN {<<>>}
    ELSE With(Selections(Tail(s)), LAMBDA rest :
            rest \cup {<<Head(s)>> \o t : t \in rest})

CliInit ==
    /\ config = <<>>
    /\ manifest = <<>>
    /\ files = <<>>
    /\ upstream = [f \in UpFiles |-> Served(f)]
    /\ clock = 0
    /\ flow = Idle
    /\ last = "-"

\* the CLI state of the specifications that only apply a function
CliIdle == CliInit

\* the elements of the list s
Range(s) == {s[i] : i \in 1..Len(s)}

Init ==
    /\ CliInit
    /\ arg = [kind |-> "cli"]
    /\ res = NoResult
    /\ fstack = <<>>

\* instruction-hub config add <repo>, between the commands on instructions
ConfigAdd(repo) ==
    /\ flow = Idle
    /\ config' = addRepo(config, repo)
    /\ last' = "-"
    /\ UNCHANGED <<manifest, files, upstream, clock, flow, pureVars>>

\* interactiveInstall up to its loop: repository and files are chosen, the
\* counts are zero
InstallBegin(selectedRepo, selectedFiles) ==
    /\ flow = Idle
    /\ Includes(config, selectedRepo)
    /\ Listing(selectedRepo).ok
    /\ selectedFiles # <<>>
    /\ flow' = [kind |-> "install", repo |-> selectedRepo, queue |-> selectedFiles,
                selected |-> Len(selectedFiles), started |-> clock,
                successCount |-> 0, errorCount |-> 0]
    /\ last' = "-"
    /\ UNCHANGED <<config, manifest, files, upstream, clock>>

\* interactiveInstall, called as such
InstallStart(selectedRepo, selectedFiles) ==
    /\ InstallBegin(selectedRepo, selectedFiles)
    /\ UNCHANGED pureVars

\* variant: the catch is around the loop, a failure ends it
InstallCaught_Abort(taken) == [taken EXCEPT !.errorCount = @ + 1, !.queue = <<>>]

\* the catch block of interactiveInstall's loop: the flow after it
InstallCaught(taken) == [taken EXCEPT !.errorCount = @ + 1]

\* one iteration of interactiveInstall's loop over the selected files;
\* fsOk: fs.writeFileSync does not throw
InstallFile(fsOk) ==
    /\ flow.kind = "install"
    /\ flow.queue # <<>>
    /\ \E selectedFile \in {Head(flow.queue)},
          taken \in {[flow EXCEPT !.queue = Tail(flow.queue)]} :
       \E dl \in {downloadFile(selectedFile.download_url)},
          name \in {Basename(selectedFile.path)} :
       \E filename \in {TargetInteractive(files, manifest, name, flow.repo)} :
          IF dl.ok /\ fsOk
          THEN /\ clock < MaxClock
               /\ clock' = clock + 1
               /\ files' = WriteFile(files, filename, ensureFrontMatter(dl.content))
               /\ manifest' = addManagedInstruction(manifest,
                                 [filename |-> filename, sourceRepo |-> flow.repo,
                                  sourcePath |-> selectedFile.path, installedAt |-> clock'])
               /\ flow' = [taken EXCEPT !.successCount = @ + 1]
               /\ last' = CollisionCase(files, manifest, InstallName(name), flow.repo)
          ELSE /\ flow' = InstallCaught(taken)
               /\ last' = "failed"
               /\ UNCHANGED <<manifest, files, clock>>
    /\ UNCHANGED <<config, upstream, pureVars>>

\* interactiveInstall after its loop: the counts are printed
InstallDone ==
    /\ flow.kind = "install"
    /\ flow.queue = <<>>
    /\ flow' = Idle
    /\ last' = "-"
    /\ UNCHANGED <<config, manifest, files, upstream, clock, pureVars>>

\* installFromUrl(url)
InstallFromUrl(url) ==
    /\ flow = Idle
    /\ \E parsed \in {ParsedUrls[url]} :
          IF ~parsed.ok
          THEN /\ last' = "invalid"
               /\ UNCHANGED <<config, manifest, files, clock>>
          ELSE /\ config' = IF Includes(config, parsed.repo) THEN config
                            ELSE addRepo(config, parsed.repo)
               /\ \E got \in {fetchSingleFile(url)} :
                  IF got.ok
                  THEN \E filename \in {TargetUrl(files, manifest, got.filename,
                                                  parsed.repo)} :
                       /\ clock < MaxClock
                       /\ clock' = clock + 1
                       /\ files' = WriteFile(files, filename, ensureFrontMatter(got.content))
                       /\ manifest' = addManagedInstruction(manifest,
                                         [filename |-> filename, sourceRepo |-> parsed.repo,
                                          sourcePath |-> got.path, installedAt |-> clock'])
                       /\ last' = CollisionCase(files, manifest,
                                                InstallName(got.filename), parsed.repo)
                  ELSE /\ last' = "failed"
                       /\ UNCHANGED <<manifest, files, clock>>
    /\ UNCHANGED <<upstream, flow, pureVars>>

\* variant: the entry is removed only when its file was there
UninstallOne_IfPresent(inst, list, dir) ==
    IF Exists(dir, inst.filename)
    THEN [list |-> removeManagedInstruction(list, inst.filename),
          dir |-> Unlink(dir, inst.filename)]
    ELSE [list |-> list, dir |-> dir]

\* variant: the file is deleted, the entry stays
UninstallOne_KeepEntry(inst, list, dir) ==
    [list |-> list,
     dir |-> IF Exists(dir, inst.filename) THEN Unlink(dir, inst.filename) ELSE dir]

\* the body of interactiveUninstall's loop: [list, dir] after it
UninstallOne(inst, list, dir) ==
    [list |-> removeManagedInstruction(list, inst.filename),
     dir |-> IF Exists(dir, inst.filename) THEN Unlink(dir, inst.filename) ELSE dir]

\* interactiveUninstall's loop over the selected entries: [list, dir] after it
RECURSIVE UninstallAll(_, _)
UninstallAll(selected, state) ==
    IF selected = <<>> THEN state
    ELSE With(UninstallOne(Head(selected), state.list, state.dir), LAMBDA after :
            UninstallAll(Tail(selected), after))

\* interactiveUninstall, with the entries the prompt returned
Uninstall(selectedInstructions) ==
    /\ flow = Idle
    /\ manifest # <<>>
    /\ Len(manifest) = 1 => selectedInstructions = manifest
    /\ selectedInstructions # <<>>
    /\ \E after \in {UninstallAll(selectedInstructions,
                                    [list |-> manifest, dir |-> files])} :
          /\ manifest' = after.list
          /\ files' = after.dir
    /\ last' = IF \E i \in 1..Len(selectedInstructions) :
                    ~Exists(files, selectedInstructions[i].filename)
               THEN "removed-missing" ELSE "removed"
    /\ UNCHANGED <<config, upstream, clock, flow, pureVars>>

\* files.find(f => f.path === sourcePath): <<>> or <<the file>>
FindSource(listing, sourcePath) ==
    LET hits == SelectSeq(listing, LAMBDA f : f.path = sourcePath)
    IN IF hits = <<>> THEN <<>> ELSE <<hits[1]>>

\* variant: the comparison never finds the file up to date
UpToDate_Never(fileContent, existingContent) == FALSE

\* fileContent === existingContent
UpToDate(fileContent, existingContent) == fileContent = existingContent

\* variant: the timestamp of the entry is replaced where the entry is
Restamp_InPlace(list, inst, stamp) ==
    [i \in 1..Len(list) |->
        IF list[i].filename = inst.filename
        THEN [list[i] EXCEPT !.installedAt = stamp] ELSE list[i]]

\* interactiveUpdate: updatedInstruction = {...inst, installedAt}, then
\* removeManagedInstruction(inst.filename), addManagedInstruction(updatedInstruction)
Restamp(list, inst, stamp) ==
    addManagedInstruction(removeManagedInstruction(list, inst.filename),
                          [inst EXCEPT !.installedAt = stamp])

\* the latest content of the source of inst: [ok, content]
LatestContent(inst) ==
    With(Listing(inst.sourceRepo), LAMBDA listing :
        With(FindSource(listing.files, inst.sourcePath), LAMBDA sourceFile :
            IF ~listing.ok \/ sourceFile = <<>> THEN [ok |-> FALSE]
            ELSE downloadFile(sourceFile[1].download_url)))

\* the body of interactiveUpdate's loop, from the state [list, dir, clock,
\* successCount, errorCount]: the state after it
UpdateOne(inst, state) ==
    With(LatestContent(inst), LAMBDA dl :
        IF ~dl.ok THEN [state EXCEPT !.errorCount = @ + 1]
        ELSE IF UpToDate(ensureFrontMatter(dl.content),
                         IF Exists(state.dir, inst.filename)
                         THEN state.dir[inst.filename] ELSE <<"">>)
        THEN state
        ELSE [list |-> Restamp(state.list, inst, state.clock + 1),
              dir |-> WriteFile(state.dir, inst.filename, ensureFrontMatter(dl.content)),
              clock |-> state.clock + 1,
              successCount |-> state.successCount + 1,
              errorCount |-> state.errorCount])

\* interactiveUpdate's loop over the entries read at its start
RECURSIVE UpdateAll(_, _)
UpdateAll(managed, state) ==
    IF managed = <<>> THEN state
    ELSE With(UpdateOne(Head(managed), state), LAMBDA after :
            UpdateAll(Tail(managed), after))

\* the history values that say an update has just run
AfterUpdate == {"update-changed", "update-unchanged", "rerun-after-change", "rerun"}

\* interactiveUpdate
Update ==
    /\ flow = Idle
    /\ manifest # <<>>
    /\ \E after \in {UpdateAll(manifest, [list |-> manifest, dir |-> files,
                                           clock |-> clock, successCount |-> 0,
                                           errorCount |-> 0])} :
          /\ after.clock <= MaxClock
          /\ manifest' = after.list
          /\ files' = after.dir
          /\ clock' = after.clock
          \* history: whether the run follows a run, and whether it wrote
          /\ last' = IF last = "update-changed" THEN "rerun-after-change"
                     ELSE IF last \in AfterUpdate THEN "rerun"
                     ELSE IF after.successCount > 0 THEN "update-changed"
                     ELSE "update-unchanged"
    /\ UNCHANGED <<config, upstream, flow, pureVars>>

\* a hosted file changes, breaks or is deleted (between two commands)
UpstreamChange(f, v) ==
    /\ flow = Idle
    /\ v \in UpValues(f) \ {upstream[f]}
    /\ upstream' = [upstream EXCEPT ![f] = v]
    /\ last' = "-"
    /\ UNCHANGED <<config, manifest, files, clock, flow, pureVars>>

\* the user deletes an installed file by hand (between two commands)
ExternalDelete(filename) ==
    /\ flow = Idle
    /\ Exists(files, filename)
    /\ files' = Unlink(files, filename)
    /\ last' = "-"
    /\ UNCHANGED <<config, manifest, upstream, clock, flow, pureVars>>

\* the commands on the instructions; the configuration only grows here
\* (SpecConfig has config remove)
Next ==
    \/ \E repo \in ConfigRefs : ConfigAdd(repo)
    \/ \E repo \in ConfigRefs :
         \E sel \in Selections(Listing(repo).files) :
            InstallStart(repo, sel)
    \/ \E fsOk \in BOOLEAN : InstallFile(fsOk)
    \/ InstallDone
    \/ \E url \in FileUrls : InstallFromUrl(url)
    \/ \E sel \in Selections(manifest) : Uninstall(sel)
    \/ Update
    \/ \E f \in UpFiles : \E v \in UpValues(f) : UpstreamChange(f, v)
    \/ \E filename \in DOMAIN files : ExternalDelete(filename)

Spec == Init /\ [][Next]_vars

\* ------------------------------- specification: update from any store
\* the entries of earlier installs, and what their files can hold by now
UpdateEntries ==
    {[filename |-> <<"guide", "instructions", "md">>, sourceRepo |-> RefA,
      sourcePath |-> <<GuideMd>>, installedAt |-> 0],
     [filename |-> <<"guide", "repoB", "instructions", "md">>, sourceRepo |-> RefB,
      sourcePath |-> <<GuideMd>>, installedAt |-> 0],
     [filename |-> <<"rules", "instructions", "md">>, sourceRepo |-> RefB,
      sourcePath |-> <<RulesMd>>, installedAt |-> 0]}
UpdateManifests ==
    {m \in SeqsUpTo(UpdateEntries, Cardinality(UpdateEntries)) :
        /\ m # <<>>
        /\ \A i, j \in 1..Len(m) : i # j => m[i] # m[j]}
InstalledTexts == {ensureFrontMatter(TextOf("a")), TextOf("b")}

\* a store left by earlier installs: every file is tracked, a tracked file
\* may have been deleted by hand
InitUpdate ==
    /\ manifest \in UpdateManifests
    /\ \E names \in SUBSET UpdateEntries :
          /\ names \subseteq Range(manifest)
          /\ files \in [{e.filename : e \in names} -> InstalledTexts]
    /\ upstream \in {u \in [UpFiles -> {"a", "b", "broken", "gone"}] :
                        \A f \in UpFiles : u[f] \in UpValues(f)}
    /\ config = <<>>
    /\ clock = 0
    /\ flow = Idle
    /\ last = "-"
    /\ arg = [kind |-> "cli"]
    /\ res = NoResult
    /\ fstack = <<>>

NextUpdate == Update

SpecUpdate == InitUpdate /\ [][NextUpdate]_vars

\* --------------------------------- specification: the configuration store
OctoDocs == <<S("octo"), S("docs")>>
ConfigStrings ==
    ConfigRefs \cup {OctoDocs,
                     <<S("https:"), Empty, GitHubHost>> \o OctoDocs,
                     OctoDocs \o <<S("tree"), S("main")>>}

\* instruction-hub config add <repo>, from any state of the store
AddRepoCall(repo) ==
    /\ config' = addRepo(config, repo)
    /\ last' = IF Includes(config, repo) THEN "present" ELSE "added"
    /\ UNCHANGED <<manifest, files, upstream, clock, flow, pureVars>>

\* instruction-hub config remove <repo>
RemoveRepoCall(repo) ==
    /\ config' = removeRepo(config, repo)
    /\ last' = IF Includes(config, repo) THEN "dropped" ELSE "absent"
    /\ UNCHANGED <<manifest, files, upstream, clock, flow, pureVars>>

NextConfig ==
    \/ \E repo \in ConfigStrings : AddRepoCall(repo)
    \/ \E repo \in ConfigStrings : RemoveRepoCall(repo)

SpecConfig == Init /\ [][NextConfig]_vars

\* ----------------------------------- specification: the tracker store
Stamps == {1, 2}
TrackerNames == {<<"guide", "instructions", "md">>, <<"rules", "instructions", "md">>,
                 <<"guide", "repoB", "instructions", "md">>}
TrackerEntries ==
    [filename : TrackerNames, sourceRepo : ConfigRefs,
     sourcePath : {<<GuideMd>>}, installedAt : Stamps]

\* a call of addManagedInstruction(instruction)
TrackerAdd(instruction) ==
    /\ manifest' = addManagedInstruction(manifest, instruction)
    /\ last' = IF FindManaged(manifest, instruction.filename) # <<>>
               THEN "replaced" ELSE "tracked"
    /\ UNCHANGED <<config, files, upstream, clock, flow, pureVars>>

\* a call of removeManagedInstruction(filename)
TrackerRemove(filename) ==
    /\ manifest' = removeManagedInstruction(manifest, filename)
    /\ last' = IF FindManaged(manifest, filename) # <<>> THEN "forgotten" ELSE "absent"
    /\ UNCHANGED <<config, files, upstream, clock, flow, pureVars>>

NextTracker ==
    \/ \E instruction \in TrackerEntries : TrackerAdd(instruction)
    \/ \E filename \in TrackerNames : TrackerRemove(filename)

SpecTracker == Init /\ [][NextTracker]_vars

\* ------------------------------------------- specification: the locator
MaxSubPath == 4
SegNames == {S("docs"), S("tree"), S("x")}
Branches == {"", "main", "dev"}           \* "" : no /tree/<branch> segment
Forms == {"short", "url", "ghe"}

\* a reference string for octo/docs[/sub], in the given form and branch
BuildRef(form, branch, sub) ==
    LET prefix == CASE form = "short" -> <<>>
                    [] form = "url" -> <<S("https:"), Empty, GitHubHost>>
                    [] form = "ghe" -> <<S("https:"), Empty, GheHost>>
        tree == IF branch = "" THEN <<>> ELSE <<S("tree"), S(branch)>>
    IN prefix \o <<S("octo"), S("docs")>> \o tree \o sub

\* a subpath whose first directory is called tree cannot be written without
\* a branch: owner/repo/tree/x already reads as branch x
SubPaths == {p \in SeqsUpTo(SegNames, MaxSubPath) : p = <<>> \/ p[1] # S("tree")}

InitParse ==
    /\ arg \in [sub : SubPaths, form1 : Forms, branch1 : Branches,
                form2 : Forms, branch2 : Branches]
    /\ res = NoResult
    /\ fstack = <<>>
    /\ CliIdle

Parse ==
    /\ res.kind = "none"
    /\ res' = [kind |-> "parsed",
               a |-> parseGitHubRepo(BuildRef(arg.form1, arg.branch1, arg.sub)),
               b |-> parseGitHubRepo(BuildRef(arg.form2, arg.branch2, arg.sub))]
    /\ UNCHANGED <<arg, fstack, cliVars>>

NextParse == Parse

SpecParse == InitParse /\ [][NextParse]_vars

\* ------------------------------------- specification: recursive listing
MaxTreeDepth == 2
DirNames == {S("docs"), S("tree")}

\* the directory structures of a repository: prefix-closed sets of paths
DirTrees ==
    {t \in SUBSET (SeqsUpTo(DirNames, MaxTreeDepth) \ {<<>>}) :
        \A p \in t : Len(p) > 1 => SubSeq(p, 1, Len(p) - 1) \in t}

RootRefs ==
    {<<S("octo"), S("docs")>>,
     <<S("https:"), Empty, GitHubHost, S("octo"), S("docs")>>,
     <<S("https:"), Empty, GheHost, S("octo"), S("docs")>>,
     <<S("https:"), Empty, GheHost, S("octo"), S("docs"), S("docs")>>}

HostOfRef(ref) == IF IncludesScheme(ref) THEN ref[3] ELSE GitHubHost

\* octo/docs on the host of ref, with the directories dirs: every directory
\* holds guide.md, the root also LICENSE
FetchWorld(ref, dirs) ==
    {[host |-> HostOfRef(ref), owner |-> S("octo"), repo |-> S("docs"), dirs |-> dirs,
      files |-> {<<License>>} \cup {Append(d, GuideMd) : d \in dirs \cup {<<>>}}]}

InitFetch ==
    /\ arg \in [ref : RootRefs, dirs : DirTrees]
    /\ res = NoResult
    /\ fstack = <<>>
    /\ CliIdle

\* the outermost call
FetchRoot ==
    /\ res.kind = "none"
    /\ fstack = <<>>
    /\ LET st == FetchCall(arg.ref, <<>>, <<>>, FetchWorld(arg.ref, arg.dirs), {})
       IN fstack' = st.stack /\ res' = st.res
    /\ UNCHANGED <<arg, cliVars>>

\* one iteration of the innermost call's loop
FetchItem ==
    /\ fstack # <<>>
    /\ Head(fstack).items # <<>>
    /\ ~TooDeep(fstack)
    /\ LET st == FetchItemStep(fstack, FetchWorld(arg.ref, arg.dirs), {})
       IN /\ fstack' = st.stack
          /\ res' = IF st.res.kind = "none" THEN res ELSE st.res
    /\ UNCHANGED <<arg, cliVars>>

\* the innermost call returns
FetchReturn ==
    /\ fstack # <<>>
    /\ Head(fstack).items = <<>>
    /\ LET st == FetchReturnStep(fstack)
       IN /\ fstack' = st.stack
          /\ res' = IF st.res.kind = "none" THEN res ELSE st.res
    /\ UNCHANGED <<arg, cliVars>>

NextFetch == FetchRoot \/ FetchItem \/ FetchReturn

SpecFetch == InitFetch /\ [][NextFetch]_vars

\* ------------------------------------- specification: the install command
\* what follows `install` on the command line
CommandArgs == {<<>>} \cup {<<url>> : url \in FileUrls}

\* instruction-hub install|i|add [args]: the command declares no argument
\* and its action calls interactiveInstall().  An argument it did not
\* declare is dropped by the parser, or rejected ("too many arguments"),
\* depending on the parser's version.
InstallCommand(args, selectedRepo, selectedFiles) ==
    /\ flow = Idle
    /\ arg' = [kind |-> "install", args |-> args]
    /\ \/ InstallBegin(selectedRepo, selectedFiles)
       \/ /\ \/ config = <<>>        \* interactiveInstall: no repositories configured
             \/ args # <<>>          \* the parser rejects the argument
          /\ last' = "-"
          /\ UNCHANGED <<config, manifest, files, upstream, clock, flow>>
    /\ UNCHANGED <<res, fstack>>

NextCommand ==
    \/ \E repo \in ConfigRefs : ConfigAdd(repo)
    \/ \E args \in CommandArgs : \E repo \in ConfigRefs :
         \E sel \in Selections(Listing(repo).files) :
            InstallCommand(args, repo, sel)
    \/ \E fsOk \in BOOLEAN : InstallFile(fsOk)
    \/ InstallDone

SpecCommand == Init /\ [][NextCommand]_vars

\* ------------------------------------- specification: the front matter
MaxLines == 4
Lines == {"---", "--- ", "applyTo: src", "# a", ""}

\* the contents of at most MaxLines lines ("" is one empty line)
Contents == SeqsUpTo(Lines, MaxLines) \ {<<>>}

InitFrontMatter ==
    /\ arg \in [content : Contents]
    /\ res = NoResult
    /\ fstack = <<>>
    /\ CliIdle

\* fileContent = ensureFrontMatter(content), and the policy applied to that
EnsureFrontMatter ==
    /\ res.kind = "none"
    /\ res' = [kind |-> "ensured",
               once |-> ensureFrontMatter(arg.content),
               twice |-> ensureFrontMatter(ensureFrontMatter(arg.content))]
    /\ UNCHANGED <<arg, fstack, cliVars>>

NextFrontMatter == EnsureFrontMatter

SpecFrontMatter == InitFrontMatter /\ [][NextFrontMatter]_vars

\* ----------------------------- specification: two processes, one store
\* Two CLI processes each run one mutation on the same document: arg.store
\* says which document, arg.ops[p] what process p adds.  flow holds, per
\* process, where it is (start, loaded, done) and the document it loaded.
\* Reading and writing the file are taken as atomic.
Procs == {1, 2}
RaceEntries == {e \in TrackerEntries : e.sourceRepo = RefA /\ e.installedAt = 1}
RaceStart == [kind |-> "race", pc |-> <<"start", "start">>, data |-> << <<>>, <<>> >>]

InitRace ==
    /\ arg \in [kind : {"race"}, store : {"manifest"}, ops : RaceEntries \X RaceEntries]
            \cup [kind : {"race"}, store : {"config"}, ops : ConfigStrings \X ConfigStrings]
    /\ manifest \in {m \in SeqsUpTo(RaceEntries, 1) :
                        arg.store = "manifest" /\ Range(m) \cap Range(arg.ops) = {}}
                   \cup {m \in {<<>>} : arg.store = "config"}
    /\ config \in {c \in SeqsUpTo(ConfigStrings, 1) :
                      arg.store = "config" /\ Range(c) \cap Range(arg.ops) = {}}
                 \cup {c \in {<<>>} : arg.store = "manifest"}
    /\ files = <<>>
    /\ upstream = [f \in UpFiles |-> Served(f)]
    /\ clock = 0
    /\ flow = RaceStart
    /\ last = "-"
    /\ res = NoResult
    /\ fstack = <<>>

\* loadTrackerData() / loadConfig() of process p
RaceLoad(p) ==
    /\ flow.pc[p] = "start"
    /\ flow' = [flow EXCEPT !.pc[p] = "loaded",
                            !.data[p] = IF arg.store = "manifest" THEN manifest ELSE config]
    /\ last' = "-"
    /\ UNCHANGED <<config, manifest, files, upstream, clock, pureVars>>

\* variant: the save writes its entries after those on disk it does not have
SaveDoc_Merge(disk, data) ==
    SelectSeq(disk, LAMBDA x : ~Includes(data, x)) \o data

\* saveTrackerData(data) / saveConfig(config): the whole document is written
SaveDoc(disk, data) == data

\* the rest of addManagedInstruction / addRepo of process p: the loaded
\* document is changed and saved (addRepo saves only what it changed)
RaceSave(p) ==
    /\ flow.pc[p] = "loaded"
    /\ flow' = [flow EXCEPT !.pc[p] = "done"]
    /\ IF arg.store = "manifest"
       THEN /\ manifest' = SaveDoc(manifest, addManagedInstruction(flow.data[p], arg.ops[p]))
            /\ UNCHANGED config
       ELSE /\ config' = IF Includes(flow.data[p], arg.ops[p]) THEN config
                         ELSE SaveDoc(config, addRepo(flow.data[p], arg.ops[p]))
            /\ UNCHANGED manifest
    /\ last' = "saved"
    /\ UNCHANGED <<files, upstream, clock, pureVars>>

NextRace ==
    \/ \E p \in Procs : RaceLoad(p)
    \/ \E p \in Procs : RaceSave(p)

SpecRace == InitRace /\ [][NextRace]_vars

\* --------------------------- specification: installs by URL, any host
NextUrl ==
    \/ \E url \in HostUrls : InstallFromUrl(url)
    \/ \E sel \in Selections(manifest) : Uninstall(sel)
    \/ Update
    \/ \E f \in UpFiles : \E v \in UpValues(f) : UpstreamChange(f, v)

SpecUrl == Init /\ [][NextUrl]_vars

\* ------------------- specification: installs from sources that share a name
\* the store after guide.md of oa/repoA was installed
InitInstalls ==
    /\ config = <<RefA>>
    /\ manifest = <<[filename |-> InstallName(GuideMd), sourceRepo |-> RefA,
                     sourcePath |-> <<GuideMd>>, installedAt |-> 0]>>
    /\ files = WriteFile(<<>>, InstallName(GuideMd), ensureFrontMatter(TextOf("a")))
    /\ upstream = [f \in UpFiles |-> Served(f)]
    /\ clock = 0
    /\ flow = Idle
    /\ last = "-"
    /\ arg = [kind |-> "cli"]
    /\ res = NoResult
    /\ fstack = <<>>

\* installs that succeed, and uninstalls
NextInstalls ==
    \/ \E repo \in SourceRefs : ConfigAdd(repo)
    \/ \E repo \in SourceRefs :
         \E sel \in Selections(Listing(repo).files) :
            InstallStart(repo, sel)
    \/ InstallFile(TRUE)
    \/ InstallDone
    \/ \E url \in SourceUrls : InstallFromUrl(url)
    \/ \E sel \in Selections(manifest) : Uninstall(sel)

SpecInstalls == InitInstalls /\ [][NextInstalls]_vars

\* ------------- specification: the tool alone, on a filesystem that works
\* the four flows from the empty store; nothing but the tool touches
\* .github/instructions and no write fails
NextTool ==
    \/ \E repo \in ConfigRefs : ConfigAdd(repo)
    \/ \E repo \in ConfigRefs :
         \E sel \in Selections(Listing(repo).files) :
            InstallStart(repo, sel)
    \/ InstallFile(TRUE)
    \/ InstallDone
    \/ \E url \in FileUrls : InstallFromUrl(url)
    \/ \E sel \in Selections(manifest) : Uninstall(sel)
    \/ Update
    \/ \E f \in UpFiles : \E v \in UpValues(f) : UpstreamChange(f, v)

SpecTool == Init /\ [][NextTool]_vars

\* ------------------------------------------------------------ the claims

\* C6: every recursive call of fetchMarkdownFiles requests the contents URL
\* built from the caller's API base, owner and repo and the directory
\* entry's path, on github.com as on Enterprise hosts.
C6_RecursionKeepsLocator ==
    /\ \A i \in 1..Len(fstack) :
          fstack[i].want # <<>> => fstack[i].url = fstack[i].want
    /\ (res.kind = "error" /\ res.want # <<>>) => res.url = res.want

\* C7: references to the same owner, repo and subpath that differ only in
\* the /tree/<branch>/ segment parse to the same owner, repo and path.
C7_SameLocator ==
    res.kind = "parsed" =>
        /\ res.a.owner = res.b.owner
        /\ res.a.repo = res.b.repo
        /\ res.a.path = res.b.path


\* ------------------------------------------- properties: install, update
\* the filename the specification derives from a source file name
DerivedName(name) ==
    IF Len(name) >= 3 /\ SubSeq(name, Len(name) - 1, Len(name)) = <<"instructions", "md">>
    THEN name
    ELSE IF name[Len(name)] = "md"
    THEN SubSeq(name, 1, Len(name) - 1) \o <<"instructions", "md">>
    ELSE name

\* <base>.<repo>.instructions.md for the entry e
DisambiguatedName(e) ==
    LET canonical == DerivedName(Basename(e.sourcePath))
    IN SubSeq(canonical, 1, Len(canonical) - 2)
         \o parseGitHubRepo(e.sourceRepo).repo \o <<"instructions", "md">>

\* the entry the install that just ran has recorded
Installed == manifest[Len(manifest)]

\* the filenames of a list of entries
Filenames(list) == {list[i].filename : i \in 1..Len(list)}

\* C1: in both install flows, a file whose canonical target exists and is
\* tracked under another source is written and tracked as
\* <base>.<repo>.instructions.md.
C1_DisambiguatedName ==
    last = "diff" =>
        /\ Installed.filename = DisambiguatedName(Installed)
        /\ Exists(files, DisambiguatedName(Installed))

\* C2: an install from source B onto a target tracked under source A leaves
\* A's file and A's entry as they were, and the manifest then holds both
\* entries under distinct filenames.
C2_OtherSourceKept ==
    [][last' = "diff" =>
        LET e == manifest'[Len(manifest')]
            canonical == DerivedName(Basename(e.sourcePath))
            a == FindManaged(manifest, canonical)
        IN /\ a # <<>>
           /\ a[1].sourceRepo # e.sourceRepo
           /\ Exists(files, canonical) /\ Exists(files', canonical)
           /\ files'[canonical] = files[canonical]
           /\ FindManaged(manifest', canonical) = a
           /\ e.filename # canonical
           /\ Exists(files', e.filename)
           /\ FindManaged(manifest', e.filename) = <<e>>
           /\ \A i, j \in 1..Len(manifest') :
                 i # j => manifest'[i].filename # manifest'[j].filename]_vars

C2_Witness == last = "diff" /\ Len(manifest) = 2 /\ Cardinality(DOMAIN files) = 2

\* C3: an install onto a target tracked under the same source overwrites it
\* in place: as many entries and the same filenames as before, and no
\* further file.
C3_SameSourceInPlace ==
    [][last' = "same" =>
        LET e == manifest'[Len(manifest')]
            canonical == DerivedName(Basename(e.sourcePath))
        IN /\ FindManaged(manifest, canonical) # <<>>
           /\ FindManaged(manifest, canonical)[1].sourceRepo = e.sourceRepo
           /\ e.filename = canonical
           /\ Len(manifest') = Len(manifest)
           /\ Filenames(manifest') = Filenames(manifest)
           /\ DOMAIN files' = DOMAIN files]_vars

C3_Witness == last = "same" /\ Len(manifest) = 1 /\ Installed.installedAt > 1

\* C4: an update run that follows an update run, with nothing in between,
\* changes neither the manifest nor any installed file.
C4_UpdateIdempotent ==
    [][last' \in {"rerun-after-change", "rerun"} =>
         (manifest' = manifest /\ files' = files)]_vars

C4_Witness == last = "rerun-after-change" /\ Len(manifest) = 2

UniqueFilenames ==
    \A i, j \in 1..Len(manifest) : i # j => manifest[i].filename # manifest[j].filename

\* C8: whatever addManagedInstruction and removeManagedInstruction calls are
\* made, no two entries share a filename, and an add leaves exactly one entry
\* with its filename: the one added.
C8_LastWriteWins ==
    /\ []UniqueFilenames
    /\ [][\A instruction \in TrackerEntries :
            TrackerAdd(instruction) =>
               /\ SelectSeq(manifest', LAMBDA m : m.filename = instruction.filename)
                    = <<instruction>>
               /\ Filenames(manifest') = Filenames(manifest) \cup {instruction.filename}]_vars

C8_Witness ==
    /\ last = "replaced"
    /\ Len(manifest) = 2
    /\ Installed.installedAt = 2

\* no string is twice in the repos list
NoDuplicateRepos ==
    \A i, j \in 1..Len(config) : i # j => config[i] # config[j]

\* the list after is the list before without s, in the same order
Without(before, s, after) ==
    /\ Range(after) = Range(before) \ {s}
    /\ Len(after) = Cardinality(Range(after))
    /\ \A i, j \in 1..Len(after) :
          i < j => \E k, l \in 1..Len(before) :
                      k < l /\ before[k] = after[i] /\ before[l] = after[j]

\* C9: whatever addRepo and removeRepo calls are made from the empty config,
\* no string is twice in the list; addRepo of a string in the list changes
\* nothing, removeRepo(s) leaves the other strings in order and no s, and
\* the first add leaves exactly one entry.
C9_ReposUnique ==
    /\ []NoDuplicateRepos
    /\ [][\A repo \in ConfigStrings :
            /\ (AddRepoCall(repo) /\ Includes(config, repo)) => config' = config
            /\ (AddRepoCall(repo) /\ config = <<>>) => config' = <<repo>>
            /\ RemoveRepoCall(repo) => Without(config, repo, config')]_vars

C9_Witness == last = "present" /\ Len(config) = 3

\* ----------------------------------------------- properties: the command
\* C11: the install command given a GitHub file URL runs the direct-URL
\* install and not the interactive selection: the repository of the URL is
\* in the config afterwards, no interactive flow is under way, and when the
\* file can be fetched it is written and tracked under that repository.
C11_UrlRunsDirectInstall ==
    [][\A url \in FileUrls : \A repo \in ConfigRefs :
          \A sel \in Selections(Listing(repo).files) :
             InstallCommand(<<url>>, repo, sel) =>
                LET parsed == parseGitHubFileUrl(url)
                    got == fetchSingleFile(url)
                IN /\ flow' = Idle
                   /\ parsed.ok => Includes(config', parsed.repo)
                   /\ (parsed.ok /\ got.ok) =>
                         \E i \in 1..Len(manifest') :
                            /\ manifest'[i].sourceRepo = parsed.repo
                            /\ manifest'[i].sourcePath = got.path
                            /\ manifest'[i].installedAt = clock'
                            /\ clock' = clock + 1
                            /\ Exists(files', manifest'[i].filename)]_vars

\* ------------------------------------------------ properties: the batch
\* the entries written and tracked since the running install began
TrackedSince(stamp) ==
    {i \in 1..Len(manifest) :
        manifest[i].installedAt > stamp /\ Exists(files, manifest[i].filename)}

\* C12: interactiveInstall goes on after a file that fails: a failing
\* iteration leaves the later selected files to be processed, every
\* processed file is counted once as success or as error, so that at the
\* end successCount + errorCount is the number of selected files, and
\* successCount is the number of files written and tracked by the flow.
C12_BatchRunsToCompletion ==
    /\ [](flow.kind = "install" =>
            /\ flow.successCount + flow.errorCount + Len(flow.queue) = flow.selected
            /\ flow.successCount = Cardinality(TrackedSince(flow.started)))
    /\ [][(flow.kind = "install" /\ last' = "failed") =>
            (flow'.kind = "install" /\ flow'.queue = Tail(flow.queue))]_vars

C12_Witness ==
    /\ flow.kind = "install"
    /\ flow.queue = <<>>
    /\ flow.errorCount = 1
    /\ flow.successCount = 1
    /\ last # "failed"

\* ------------------------------------------------ properties: the update
\* the hosted file the entry e was installed from
SourceFile(e) ==
    CHOOSE f \in UpFiles :
        /\ f.host = GitHubHost
        /\ <<f.owner, f.repo>> = e.sourceRepo
        /\ f.path = e.sourcePath

\* the content an update has to install for e: what is served now, with the
\* front-matter policy applied
FreshContent(e) == ensureFrontMatter(TextOf(upstream[SourceFile(e)]))

\* the source of e can be downloaded and differs from the installed file
Differs(e) ==
    /\ upstream[SourceFile(e)] \in {"a", "b"}
    /\ ~(Exists(files, e.filename) /\ files[e.filename] = FreshContent(e))

IsDelimiter(line) == line \in {"---", "--- "}

\* the content starts with a block delimited by two --- lines
StartsWithBlock(content) ==
    /\ IsDelimiter(content[1])
    /\ \E j \in 2..Len(content) : IsDelimiter(content[j])

\* the default block ---, applyTo: "**", ---, and an empty line, before content
WithDefaultBlock(content) == <<"---", "applyTo: \"**\"", "---", "">> \o content

\* C14: content that starts with a front-matter block is written as it is,
\* any other content is written with the default block before it, and the
\* policy applied to its own output changes nothing.
C14_FrontMatterPolicy ==
    res.kind = "ensured" =>
        /\ StartsWithBlock(arg.content) => res.once = arg.content
        /\ ~StartsWithBlock(arg.content) => res.once = WithDefaultBlock(arg.content)
        /\ res.twice = res.once

\* ---------------------------------------------- properties: two processes
\* the document both processes changed, as saved now
SavedDoc == IF arg.store = "manifest" THEN manifest ELSE config

\* both processes have finished, and their changes differ
BothDone == flow.pc = <<"done", "done">> /\ arg.ops[1] # arg.ops[2]

\* the saved document lacks the change of process p
LostUpdate(p) == BothDone /\ ~Includes(SavedDoc, arg.ops[p])

\* C15: two processes that each load, change and save the same document
\* without a lock can lose an update.  When both are done the document has
\* the change of at least one of them, and it has both exactly when one
\* process loaded what the other had saved; when both loaded before either
\* saved, the change of the one that saved first is lost.
C15_UnlockedStoresLoseUpdates ==
    BothDone =>
        /\ Includes(SavedDoc, arg.ops[1]) \/ Includes(SavedDoc, arg.ops[2])
        /\ (Includes(SavedDoc, arg.ops[1]) /\ Includes(SavedDoc, arg.ops[2]))
              <=> (Includes(flow.data[1], arg.ops[2]) \/ Includes(flow.data[2], arg.ops[1]))

\* a lost update in the manifest: both processes loaded the same document
C15_Witness ==
    /\ arg.store = "manifest"
    /\ flow.data[1] = flow.data[2]
    /\ LostUpdate(1)
    /\ arg.ops[1].filename # arg.ops[2].filename

\* ------------------------------------------------ properties: the listing
\* the directories of the subtree the reference asks for
RequestedDirs ==
    LET root == parseGitHubRepo(arg.ref).path
    IN {d \in arg.dirs \cup {<<>>} :
           Len(d) >= Len(root) /\ SubSeq(d, 1, Len(root)) = root}

\* C16: on a finite directory tree fetchMarkdownFiles terminates and lists
\* each directory of the requested subtree once, whatever the directories
\* are called: no call lists a directory that a call still awaiting it
\* lists (the listing would never end), and the result names the Markdown
\* file of every requested directory once.
C16_ListsEachDirectoryOnce ==
    /\ \A i, j \in 1..Len(fstack) : i # j => fstack[i].url # fstack[j].url
    /\ res.kind = "files" =>
          /\ {res.files[i].path : i \in 1..Len(res.files)}
                = {Append(d, GuideMd) : d \in RequestedDirs}
          /\ Len(res.files) = Cardinality(RequestedDirs)

\* --------------------------------------- properties: the recorded source
\* C17: the source repository that installFromUrl records in the manifest
\* and adds to the config resolves, by parseGitHubRepo, to the API base
\* that parseGitHubFileUrl derived from the URL, on github.com as on an
\* Enterprise host.
C17_SourceKeepsHost ==
    [][\A url \in HostUrls :
          (InstallFromUrl(url) /\ last' \in {"fresh", "same", "diff", "untracked"}) =>
             /\ parseGitHubRepo(manifest'[Len(manifest')].sourceRepo).baseUrl
                   = parseGitHubFileUrl(url).baseUrl
             /\ \E i \in 1..Len(config') :
                   /\ config'[i] = manifest'[Len(manifest')].sourceRepo
                   /\ parseGitHubRepo(config'[i]).baseUrl
                         = parseGitHubFileUrl(url).baseUrl]_vars

\* --------------------------------------- properties: sources side by side
\* C18: an install from one source never overwrites what was installed from
\* another source string: every entry of another source is in the manifest
\* after the install as it was before, and its file has the content it had,
\* also when two sources have the same repository short name and when the
\* disambiguated filename exists.
C18_SourcesNeverOverwrite ==
    [][last' \in {"fresh", "same", "diff", "untracked"} =>
        LET n == manifest'[Len(manifest')]
        IN \A i \in 1..Len(manifest) :
              manifest[i].sourceRepo # n.sourceRepo =>
                 /\ \E j \in 1..Len(manifest') : manifest'[j] = manifest[i]
                 /\ Exists(files, manifest[i].filename) =>
                       /\ Exists(files', manifest[i].filename)
                       /\ files'[manifest[i].filename]
                             = files[manifest[i].filename]]_vars

\* ------------------------------------- properties: manifest and directory
\* C19: with no filesystem failure and nothing changed from outside, after
\* any sequence of interactive installs, URL installs, updates and
\* uninstalls from the empty manifest, every entry's filename names a file
\* that exists in .github/instructions.
C19_TrackedFilesExist ==
    flow = Idle => \A i \in 1..Len(manifest) : Exists(files, manifest[i].filename)

C19_Witness ==
    /\ flow = Idle
    /\ last = "removed"
    /\ Len(manifest) = 1
    /\ Cardinality(DOMAIN files) = 1

====
